---- MODULE Spec2Model ----
(***************************************************************************)
(* HiFiGANModel (fish_vocoder/models/hifigan.py): the manual-optimization  *)
(* training step with two optimizers and two schedulers, and the           *)
(* validation step.  Tensors are abstracted to their time window and the   *)
(* set of parameter groups their autograd graph reaches; losses are exact  *)
(* rationals.                                                              *)
(***************************************************************************)
EXTENDS Integers, Sequences, FiniteSets, TLC

\* ---- bounds of the model ----
MaxT == 4          \* largest time dimension of a batch
MaxCrop == 3       \* largest configured crop_length
MaxDisc == 2       \* largest number of discriminators in the ensemble
MaxLoss == 1       \* external scalar losses range over 0..MaxLoss
MaxScore == 1      \* discriminator score elements range over 0..MaxScore
ScoreLen == 1      \* number of elements of a score tensor
MaxCalls == 2      \* training_step calls per behaviour

\* ---- program constants ----
None == -1                 \* crop_length: int | None = None
GenP == 0                  \* the parameter group self.generator.parameters()
STFTWeight == <<5, 2>>     \* the literal 2.5 in loss_gen_all

VARIABLES
    crop_length,      \* self.crop_length
    discriminators,   \* self.discriminators: sequence of keys, insertion order
    grad,             \* .grad buffers: parameter group -> set of <<loss, call>>
    param,            \* parameter group -> number of updates applied to it
    optim_steps,      \* [g, d]: number of optimizer.step() calls
    sched_steps,      \* [g, d]: number of scheduler.step() calls
    calls,            \* number of training_step calls started
    val_outcomes,     \* outcomes of the validation_step calls since the last
                      \* training_step
    at_entry,         \* optimizer and scheduler step counts when the call in
                      \* progress began (the current counts between calls)
    pc,               \* position inside training_step, "idle" between calls
    audio, fake_audio, audio_mask,   \* locals of training_step (tensors)
    slice_idx,        \* local slice_idx, None when no crop took place
    time,             \* audio.shape[2] of the batch as passed in
    loss_stft, loss_mel, loss_adv_all, loss_gen_all, loss_disc_all,
    i,                \* index of the discriminator loop
    logged,           \* self.log calls of the generator phase in progress
    scored,           \* tensors handed to the discriminators, in order
    applied,          \* [g, d]: gradient buffers consumed by each optimizer.step
    trace             \* optimizer / backward / scheduler events of the call

persistent == <<crop_length, discriminators, grad, param, optim_steps,
                sched_steps, calls, val_outcomes>>
tensors == <<audio, fake_audio, audio_mask, slice_idx, time>>
losses == <<loss_stft, loss_mel, loss_adv_all, loss_gen_all, loss_disc_all>>
vars == <<persistent, pc, tensors, losses, i, logged, scored, applied, trace,
          at_entry>>

\* ---- exact rational arithmetic for scalar losses ----
RECURSIVE Gcd(_, _)
Gcd(a, b) == IF b = 0 THEN a ELSE Gcd(b, a % b)

Norm(r) == LET g == Gcd(r[1], r[2]) IN <<r[1] \div g, r[2] \div g>>
Rat(n) == <<n, 1>>
RAdd(x, y) == Norm(<<x[1] * y[2] + y[1] * x[2], x[2] * y[2]>>)
RMul(x, y) == Norm(<<x[1] * y[1], x[2] * y[2]>>)
RDivInt(x, n) == Norm(<<x[1], x[2] * n>>)

RECURSIVE SumSeq(_)
SumSeq(s) == IF s = <<>> THEN 0 ELSE Head(s) + SumSeq(Tail(s))

\* torch.mean over the elements of a score tensor
Mean(s) == Norm(<<SumSeq(s), Len(s)>>)

\* ---- tensors: time window [lo, lo+len) of the batch, autograd reach ----
Tensor(lo, len, deps) == [lo |-> lo, len |-> len, deps |-> deps]
NoTensor == Tensor(0, 0, {})
Loss(val, deps) == [val |-> val, deps |-> deps]
NoLoss == Loss(Rat(0), {})

Min(a, b) == IF a < b THEN a ELSE b

\* a slice that forgets to add the start index to its upper bound
SliceNoOffset(t, s, c) ==
    Tensor(t.lo + Min(s, t.len), Min(c, t.len) - Min(Min(s, c), t.len), t.deps)

\* t[..., s : s + c] with Python's clamping of slice bounds
Slice(t, s, c) ==
    Tensor(t.lo + Min(s, t.len), Min(s + c, t.len) - Min(s, t.len), t.deps)

\* elementwise product with broadcasting over the time axis
Mul(a, m) ==
    Tensor(a.lo, IF a.len = 1 THEN m.len ELSE a.len, a.deps \cup m.deps)

\* a detach that keeps the autograd graph
DetachKeepsGraph(t) == t

\* tensor.detach()
Detach(t) == Tensor(t.lo, t.len, {})

\* sequence_mask(lengths)[:, None, :]: a mask over the time axis of the batch
sequence_mask(T) == Tensor(0, T, {})

\* self.generator(input_mels): output of externally chosen length
generator(T) == Tensor(0, T, {GenP})

\* disc(x): the score depends on the input and on that discriminator's weights
DiscScore(key, x) == x.deps \cup {key}

ScoreTensors == [1..ScoreLen -> 0..MaxScore]

\* torch.mean((1 - score_fake) ** 2)
LossFake(s) == Mean([k \in 1..ScoreLen |-> (1 - s[k]) * (1 - s[k])])

\* torch.mean((score - 1) ** 2) + torch.mean((score_fake) ** 2)
LossDisc(s, sf) ==
    RAdd(Mean([k \in 1..ScoreLen |-> (s[k] - 1) * (s[k] - 1)]),
         Mean([k \in 1..ScoreLen |-> sf[k] * sf[k]]))

\* ---- optimizers ----
NumDisc == Len(discriminators)
DiscParams == {discriminators[k] : k \in 1..NumDisc}
Params == {GenP} \cup DiscParams

\* a generator optimizer built over the parameters of the whole module
OptimParamsWholeModule(opt) == IF opt = "g" THEN Params ELSE DiscParams

\* configure_optimizers: the parameters each optimizer was built over
OptimParams(opt) == IF opt = "g" THEN {GenP} ELSE DiscParams

\* a zero_grad that leaves the buffers as they are
ZeroGradKeeps(opt, g) == g

\* optimizer.zero_grad()
ZeroGrad(opt, g) ==
    [p \in DOMAIN g |-> IF p \in OptimParams(opt) THEN {} ELSE g[p]]

\* self.manual_backward(loss): accumulate into every parameter the loss reaches
Backward(loss, tag, g) ==
    [p \in DOMAIN g |-> IF p \in loss.deps THEN g[p] \cup {<<tag, calls>>} ELSE g[p]]

\* optimizer.step(): update the optimizer's parameters that hold a gradient
OptimStep(opt, pr, g) ==
    [p \in DOMAIN pr |->
        IF p \in OptimParams(opt) /\ g[p] # {} THEN pr[p] + 1 ELSE pr[p]]

\* the gradient buffers an optimizer.step() reads
Consumed(opt, g) == [p \in OptimParams(opt) |-> g[p]]

Log(key, disc, value) == [key |-> key, disc |-> disc, value |-> value]

\* ---- initial state: __init__ and configure_optimizers ----
Init ==
    /\ crop_length \in {None} \cup 1..MaxCrop
    /\ \E n \in 1..MaxDisc : discriminators = [k \in 1..n |-> k]
    /\ grad = [p \in Params |-> {}]
    /\ param = [p \in Params |-> 0]
    /\ optim_steps = [g |-> 0, d |-> 0]
    /\ sched_steps = [g |-> 0, d |-> 0]
    /\ calls = 0
    /\ val_outcomes = {}
    /\ at_entry = [optim |-> optim_steps, sched |-> sched_steps]
    /\ pc = "idle"
    /\ audio = NoTensor /\ fake_audio = NoTensor /\ audio_mask = NoTensor
    /\ slice_idx = None
    /\ time = 0
    /\ loss_stft = NoLoss /\ loss_mel = NoLoss /\ loss_adv_all = NoLoss
    /\ loss_gen_all = NoLoss /\ loss_disc_all = NoLoss
    /\ i = 0
    /\ logged = <<>>
    /\ scored = <<>>
    /\ applied = [g |-> <<>>, d |-> <<>>]
    /\ trace = <<>>

\* ---- training_step ----

\* lines 78-86: fetch optimizers, build the mask, zero_grad, run the generator
TrainStart ==
    /\ pc = "idle"
    /\ calls < MaxCalls
    /\ \E T \in 1..MaxT, genT \in 1..MaxT :
        /\ time' = T
        /\ audio' = Tensor(0, T, {})
        /\ audio_mask' = sequence_mask(T)
        /\ fake_audio' = generator(genT)
    /\ calls' = calls + 1
    /\ grad' = ZeroGrad("g", grad)
    /\ trace' = <<"optim_g.zero_grad">>
    /\ at_entry' = [optim |-> optim_steps, sched |-> sched_steps]
    /\ val_outcomes' = {}
    /\ pc' = "assert_shape"
    /\ UNCHANGED <<crop_length, discriminators, param, optim_steps, sched_steps,
                   slice_idx, losses, i, logged, scored, applied>>

\* the shape of the generator output checked only after the generator update
TrainAssertShapeAfterUpdate ==
    /\ pc = "assert_shape"
    /\ IF fake_audio.len = audio.len
       THEN pc' = "mask" /\ UNCHANGED <<param, optim_steps, trace>>
       ELSE /\ pc' = "aborted"
            /\ param' = [param EXCEPT ![GenP] = @ + 1]
            /\ optim_steps' = [optim_steps EXCEPT !.g = @ + 1]
            /\ trace' = Append(trace, "optim_g.step")
    /\ UNCHANGED <<crop_length, discriminators, grad, sched_steps, calls,
                   val_outcomes, tensors, losses, i, logged, scored,
                   applied, at_entry>>

\* line 88: assert fake_audio.shape == audio.shape
TrainAssertShape ==
    /\ pc = "assert_shape"
    /\ pc' = IF fake_audio.len = audio.len THEN "mask" ELSE "aborted"
    /\ UNCHANGED <<persistent, tensors, losses, i, logged, scored, applied, trace>>
    /\ UNCHANGED at_entry

\* lines 91-125: apply the mask, STFT loss, monitoring mel loss
TrainMaskAndLosses ==
    /\ pc = "mask"
    /\ audio' = Mul(audio, audio_mask)
    /\ fake_audio' = Mul(fake_audio, audio_mask)
    /\ \E sc \in 0..MaxLoss, mag \in 0..MaxLoss, mel \in 0..MaxLoss :
        /\ loss_stft' = Loss(RAdd(Rat(sc), Rat(mag)), fake_audio'.deps \cup audio'.deps)
        /\ loss_mel' = Loss(Rat(mel), {})
        /\ logged' = logged \o <<Log("train/generator/stft", 0, loss_stft'.val),
                                 Log("train/generator/mel", 0, loss_mel'.val)>>
    /\ pc' = "crop"
    /\ UNCHANGED <<persistent, audio_mask, slice_idx, time, loss_adv_all,
                   loss_gen_all, loss_disc_all, i, scored, applied, trace>>
    /\ UNCHANGED at_entry

\* a random start drawn from the closed range [low, high]
RandIntInclusive(low, high) == low..high

\* torch.randint(0, high, (1,)): the half-open range [0, high)
RandInt(low, high) == low..(high - 1)

\* lines 128-138: the crop branch, its assertion, loss_adv_all = 0
TrainCrop ==
    /\ pc = "crop"
    /\ crop_length # None /\ audio.len > crop_length
    /\ \E s \in RandInt(0, audio.len - crop_length) :
        /\ slice_idx' = s
        /\ audio' = Slice(audio, s, crop_length)
        /\ fake_audio' = Slice(fake_audio, s, crop_length)
        /\ audio_mask' = Slice(audio_mask, s, crop_length)
    /\ IF audio'.len = fake_audio'.len /\ fake_audio'.len = audio_mask'.len
       THEN pc' = "gen_score" /\ i' = 1 /\ loss_adv_all' = NoLoss
       ELSE pc' = "aborted" /\ UNCHANGED <<i, loss_adv_all>>
    /\ UNCHANGED <<persistent, time, loss_stft, loss_mel, loss_gen_all,
                   loss_disc_all, logged, scored, applied, trace>>
    /\ UNCHANGED at_entry

\* lines 128, 138: the branch not taken, loss_adv_all = 0
TrainNoCrop ==
    /\ pc = "crop"
    /\ ~(crop_length # None /\ audio.len > crop_length)
    /\ pc' = "gen_score" /\ i' = 1 /\ loss_adv_all' = NoLoss
    /\ UNCHANGED <<persistent, tensors, loss_stft, loss_mel, loss_gen_all,
                   loss_disc_all, logged, scored, applied, trace>>
    /\ UNCHANGED at_entry

\* lines 140-154: one iteration of the generator-phase discriminator loop
TrainGenScore ==
    /\ pc = "gen_score"
    /\ i <= NumDisc
    /\ \E score_fake \in ScoreTensors :
        LET key == discriminators[i]
            loss_fake == Loss(LossFake(score_fake), DiscScore(key, fake_audio))
        IN /\ logged' = Append(logged, Log("train/generator/adv", key, loss_fake.val))
           /\ loss_adv_all' = Loss(RAdd(loss_adv_all.val, loss_fake.val),
                                   loss_adv_all.deps \cup loss_fake.deps)
           /\ scored' = Append(scored, [phase |-> "g", key |-> key, x |-> fake_audio])
    /\ i' = i + 1
    /\ UNCHANGED <<persistent, pc, tensors, loss_stft, loss_mel, loss_gen_all,
                   loss_disc_all, applied, trace>>
    /\ UNCHANGED at_entry

\* the weight applied to the whole sum instead of to the STFT term
GenLossWeightsSum(stft, adv) ==
    Loss(RMul(RAdd(stft.val, adv.val), STFTWeight), stft.deps \cup adv.deps)

\* loss_gen_all = loss_stft * 2.5 + loss_adv_all
GenLoss(stft, adv) ==
    Loss(RAdd(RMul(stft.val, STFTWeight), adv.val), stft.deps \cup adv.deps)

\* lines 156-159: average, total generator loss, manual_backward
TrainGenBackward ==
    /\ pc = "gen_score"
    /\ i > NumDisc
    /\ loss_adv_all' = Loss(RDivInt(loss_adv_all.val, NumDisc), loss_adv_all.deps)
    /\ loss_gen_all' = GenLoss(loss_stft, loss_adv_all')
    /\ grad' = Backward(loss_gen_all', "gen", grad)
    /\ trace' = Append(trace, "backward_g")
    /\ pc' = "optim_g_step"
    /\ UNCHANGED <<crop_length, discriminators, param, optim_steps, sched_steps,
                   calls, val_outcomes, tensors, loss_stft, loss_mel,
                   loss_disc_all, i, logged, scored, applied>>
    /\ UNCHANGED at_entry

\* a generator phase that never steps its optimizer
TrainOptimGStepMissing ==
    /\ pc = "optim_g_step"
    /\ pc' = "optim_d_zero"
    /\ loss_stft' = NoLoss /\ loss_mel' = NoLoss /\ loss_adv_all' = NoLoss
    /\ loss_gen_all' = NoLoss
    /\ logged' = <<>>
    /\ UNCHANGED <<persistent, tensors, loss_disc_all, i, scored, applied,
                   trace, at_entry>>

\* line 160: optim_g.step(); the losses of the generator phase and what it
\* logged are not read again and are dropped here
TrainOptimGStep ==
    /\ pc = "optim_g_step"
    /\ param' = OptimStep("g", param, grad)
    /\ applied' = [applied EXCEPT !.g = Consumed("g", grad)]
    /\ optim_steps' = [optim_steps EXCEPT !.g = @ + 1]
    /\ trace' = Append(trace, "optim_g.step")
    /\ loss_stft' = NoLoss /\ loss_mel' = NoLoss /\ loss_adv_all' = NoLoss
    /\ loss_gen_all' = NoLoss
    /\ logged' = <<>>
    /\ pc' = "optim_d_zero"
    /\ UNCHANGED <<crop_length, discriminators, grad, sched_steps, calls,
                   val_outcomes, tensors, loss_disc_all, i, scored>>
    /\ UNCHANGED at_entry

\* lines 163-165: optim_d.zero_grad(), loss_disc_all = 0
TrainOptimDZeroGrad ==
    /\ pc = "optim_d_zero"
    /\ grad' = ZeroGrad("d", grad)
    /\ loss_disc_all' = NoLoss
    /\ i' = 1
    /\ trace' = Append(trace, "optim_d.zero_grad")
    /\ pc' = "disc_score"
    /\ UNCHANGED <<crop_length, discriminators, param, optim_steps, sched_steps,
                   calls, val_outcomes, tensors, loss_stft, loss_mel,
                   loss_adv_all, loss_gen_all, logged, scored, applied>>
    /\ UNCHANGED at_entry

\* lines 166-182: one iteration of the discriminator-phase loop
TrainDiscScore ==
    /\ pc = "disc_score"
    /\ i <= NumDisc
    /\ \E score \in ScoreTensors, score_fake \in ScoreTensors :
        LET key == discriminators[i]
            fake == Detach(fake_audio)
            loss_disc == Loss(LossDisc(score, score_fake),
                              DiscScore(key, audio) \cup DiscScore(key, fake))
        IN /\ loss_disc_all' = Loss(RAdd(loss_disc_all.val, loss_disc.val),
                                    loss_disc_all.deps \cup loss_disc.deps)
           /\ scored' = scored \o <<[phase |-> "d", key |-> key, x |-> audio],
                                    [phase |-> "d", key |-> key, x |-> fake]>>
    /\ i' = i + 1
    /\ UNCHANGED <<persistent, pc, tensors, loss_stft, loss_mel, loss_adv_all,
                   loss_gen_all, logged, applied, trace>>
    /\ UNCHANGED at_entry

\* lines 184-186: average, manual_backward
TrainDiscBackward ==
    /\ pc = "disc_score"
    /\ i > NumDisc
    /\ loss_disc_all' = Loss(RDivInt(loss_disc_all.val, NumDisc), loss_disc_all.deps)
    /\ grad' = Backward(loss_disc_all', "disc", grad)
    /\ trace' = Append(trace, "backward_d")
    /\ pc' = "optim_d_step"
    /\ UNCHANGED <<crop_length, discriminators, param, optim_steps, sched_steps,
                   calls, val_outcomes, tensors, loss_stft, loss_mel,
                   loss_adv_all, loss_gen_all, i, logged, scored, applied>>
    /\ UNCHANGED at_entry

\* lines 187-197: optim_d.step(), log the combined discriminator loss, which
\* is not read again and is dropped here
TrainOptimDStep ==
    /\ pc = "optim_d_step"
    /\ param' = OptimStep("d", param, grad)
    /\ applied' = [applied EXCEPT !.d = Consumed("d", grad)]
    /\ optim_steps' = [optim_steps EXCEPT !.d = @ + 1]
    /\ loss_disc_all' = NoLoss
    /\ trace' = Append(trace, "optim_d.step")
    /\ pc' = "scheduler_g"
    /\ UNCHANGED <<crop_length, discriminators, grad, sched_steps, calls,
                   val_outcomes, tensors, loss_stft, loss_mel, loss_adv_all,
                   loss_gen_all, i, logged, scored>>
    /\ UNCHANGED at_entry

\* lines 200-201: scheduler_g.step()
TrainSchedulerGStep ==
    /\ pc = "scheduler_g"
    /\ sched_steps' = [sched_steps EXCEPT !.g = @ + 1]
    /\ trace' = Append(trace, "scheduler_g.step")
    /\ pc' = "scheduler_d"
    /\ UNCHANGED <<crop_length, discriminators, grad, param, optim_steps, calls,
                   val_outcomes, tensors, losses, i, logged, scored,
                   applied>>
    /\ UNCHANGED at_entry

\* a scheduler advance that steps only the generator scheduler
TrainSchedulerDStepMissing ==
    /\ pc = "scheduler_d"
    /\ pc' = "done"
    /\ UNCHANGED <<persistent, tensors, losses, i, logged, scored, applied,
                   trace, at_entry>>

\* line 202: scheduler_d.step(), the last statement of training_step
TrainSchedulerDStep ==
    /\ pc = "scheduler_d"
    /\ sched_steps' = [sched_steps EXCEPT !.d = @ + 1]
    /\ trace' = Append(trace, "scheduler_d.step")
    /\ pc' = "done"
    /\ UNCHANGED <<crop_length, discriminators, grad, param, optim_steps, calls,
                   val_outcomes, tensors, losses, i, logged, scored,
                   applied>>
    /\ UNCHANGED at_entry

\* training_step returns (or its AssertionError propagates): locals are dropped
TrainReturn ==
    /\ pc \in {"done", "aborted"}
    /\ pc' = "idle"
    /\ audio' = NoTensor /\ fake_audio' = NoTensor /\ audio_mask' = NoTensor
    /\ slice_idx' = None
    /\ time' = 0
    /\ loss_stft' = NoLoss /\ loss_mel' = NoLoss /\ loss_adv_all' = NoLoss
    /\ loss_gen_all' = NoLoss /\ loss_disc_all' = NoLoss
    /\ i' = 0
    /\ logged' = <<>>
    /\ scored' = <<>>
    /\ applied' = [g |-> <<>>, d |-> <<>>]
    /\ trace' = <<>>
    /\ at_entry' = [optim |-> optim_steps, sched |-> sched_steps]
    /\ UNCHANGED persistent

\* ---- validation_step ----

\* self.report_val_metrics(y_g_hat, y, lengths): reporting only
report_val_metrics(state) == state

\* a validation step that advances the schedulers like a training step
validation_step_steps_schedulers ==
    /\ pc = "idle"
    /\ \E T \in 1..MaxT, genT \in 1..MaxT :
        IF genT = T
        THEN /\ val_outcomes' = val_outcomes \cup {"completed"}
             /\ sched_steps' = [g |-> sched_steps.g + 1, d |-> sched_steps.d + 1]
        ELSE /\ val_outcomes' = val_outcomes \cup {"aborted"}
             /\ UNCHANGED sched_steps
    /\ UNCHANGED <<crop_length, discriminators, grad, param, optim_steps, calls,
                   pc, tensors, losses, i, logged, scored, applied, trace,
                   at_entry>>

\* lines 204-232: the whole handler; aborts on the shape assertion of line 210
validation_step ==
    /\ pc = "idle"
    /\ \E T \in 1..MaxT, genT \in 1..MaxT :
        LET y == Tensor(0, T, {})
            y_mask == sequence_mask(T)
            y_g_hat == generator(genT)
        IN IF y_g_hat.len = y.len
           THEN LET after == report_val_metrics(
                                 <<grad, param, optim_steps, sched_steps>>)
                IN /\ val_outcomes' = val_outcomes \cup {"completed"}
                   /\ grad' = after[1]
                   /\ param' = after[2]
                   /\ optim_steps' = after[3]
                   /\ sched_steps' = after[4]
           ELSE /\ val_outcomes' = val_outcomes \cup {"aborted"}
                /\ UNCHANGED <<grad, param, optim_steps, sched_steps>>
    /\ UNCHANGED <<crop_length, discriminators, calls, pc, tensors, losses, i,
                   logged, scored, applied, trace>>
    /\ UNCHANGED at_entry

Next ==
    \/ TrainStart
    \/ TrainAssertShape
    \/ TrainMaskAndLosses
    \/ TrainCrop
    \/ TrainNoCrop
    \/ TrainGenScore
    \/ TrainGenBackward
    \/ TrainOptimGStep
    \/ TrainOptimDZeroGrad
    \/ TrainDiscScore
    \/ TrainDiscBackward
    \/ TrainOptimDStep
    \/ TrainSchedulerGStep
    \/ TrainSchedulerDStep
    \/ TrainReturn
    \/ validation_step

Spec == Init /\ [][Next]_vars

\* ---- properties ----

FullTrace ==
    <<"optim_g.zero_grad", "backward_g", "optim_g.step",
      "optim_d.zero_grad", "backward_d", "optim_d.step",
      "scheduler_g.step", "scheduler_d.step">>

Events == {trace[k] : k \in 1..Len(trace)}
StepEvents == {"optim_g.step", "optim_d.step", "scheduler_g.step", "scheduler_d.step"}

\* C1: a training_step call that completes has performed, exactly once each
\* and in this order: optim_g.zero_grad, generator backward, optim_g.step,
\* optim_d.zero_grad, discriminator backward, optim_d.step, scheduler_g.step,
\* scheduler_d.step; every prefix of a call is a prefix of that order.
C1_EventOrder ==
    /\ Len(trace) <= Len(FullTrace)
    /\ trace = SubSeq(FullTrace, 1, Len(trace))
    /\ pc = "done" => trace = FullTrace

C1_Witness == pc = "done" /\ calls = 2 /\ optim_steps.g = 2 /\ Len(trace) = 8

\* C2: between calls, each scheduler has been stepped as often as its
\* optimizer, whatever mix of completed and aborted training calls and of
\* validation calls went before.
C2_SchedulerCountsMatch ==
    pc = "idle" =>
        /\ sched_steps.g = optim_steps.g
        /\ sched_steps.d = optim_steps.d

C2_Witness ==
    /\ pc = "idle" /\ calls = 2 /\ optim_steps.g = 1 /\ sched_steps.d = 1
    /\ val_outcomes # {}

\* C3: a validation_step call, completing or aborting, changes no gradient
\* buffer, no parameter, no optimizer or scheduler step count and performs
\* none of the optimizer, backward or scheduler events.
C3_ValidationFrame ==
    [][pc = "idle" /\ pc' = "idle" =>
          UNCHANGED <<grad, param, optim_steps, sched_steps, trace>>]_vars

C3_Witness ==
    /\ val_outcomes = {"completed", "aborted"}
    /\ optim_steps.d = 1 /\ sched_steps.d = 1
    /\ \E p \in DiscParams : grad[p] # {}

\* C4: a training_step call that aborts on a shape assertion has applied no
\* optimizer step and no scheduler step; one that completes has applied each
\* of the four exactly once.
C4_AllOrNothing ==
    /\ pc = "aborted" =>
          /\ optim_steps = at_entry.optim
          /\ sched_steps = at_entry.sched
          /\ Events \cap StepEvents = {}
    /\ pc = "done" =>
          /\ optim_steps = [g |-> at_entry.optim.g + 1, d |-> at_entry.optim.d + 1]
          /\ sched_steps = [g |-> at_entry.sched.g + 1, d |-> at_entry.sched.d + 1]
          /\ StepEvents \subseteq Events

C4_Witness == pc = "aborted" /\ calls = 2 /\ optim_steps.g = 1 /\ at_entry.optim.g = 1

\* C5: whenever training_step has cropped, the window lies inside the
\* sequence (0 <= start, start + crop_length <= T) and audio, fake_audio and
\* audio_mask all have time length exactly crop_length.
C5_CropWindowFits ==
    slice_idx # None =>
        /\ crop_length <= time
        /\ 0 <= slice_idx
        /\ slice_idx + crop_length <= time
        /\ audio.len = crop_length
        /\ fake_audio.len = crop_length
        /\ audio_mask.len = crop_length

C5_Witness ==
    /\ slice_idx # None /\ slice_idx > 0 /\ crop_length > 1
    /\ audio.len = crop_length /\ pc = "gen_score"

C7_DiscPhaseLeavesGenerator ==
    /\ [](\A c \in grad[GenP] : c[1] # "disc")
    /\ [][pc = "disc_score" /\ pc' = "optim_d_step" => grad'[GenP] = grad[GenP]]_vars
    /\ [][pc = "optim_d_step" => param'[GenP] = param[GenP]]_vars

C7_Witness ==
    /\ pc = "scheduler_g"
    /\ grad[GenP] = {<<"gen", calls>>}
    /\ \A p \in DiscParams : <<"disc", calls>> \in grad[p] /\ param[p] = calls
    /\ param[GenP] = calls /\ calls = 2

LoggedValues(key) ==
    [k \in 1..Cardinality({j \in 1..Len(logged) : logged[j].key = key}) |->
        LET idx == CHOOSE j \in 1..Len(logged) :
                      /\ logged[j].key = key
                      /\ Cardinality({m \in 1..j : logged[m].key = key}) = k
        IN logged[idx].value]

RECURSIVE RSum(_)
RSum(s) == IF s = <<>> THEN Rat(0) ELSE RAdd(Head(s), RSum(Tail(s)))

\* C8: the loss handed to the generator-phase backward equals
\* 2.5 * loss_stft + (sum of the per-discriminator adversarial losses) / n;
\* the monitoring mel loss is no part of it.  Stated by cross-multiplication
\* over the logged values: a/b = 5p/(2q) + r/(s*n).
C8_GeneratorLoss ==
    pc = "optim_g_step" =>
        LET stft == LoggedValues("train/generator/stft")
            adv == LoggedValues("train/generator/adv")
            p == stft[1][1]
            q == stft[1][2]
            r == RSum(adv)[1]
            t == RSum(adv)[2]
            a == loss_gen_all.val[1]
            b == loss_gen_all.val[2]
            n == NumDisc
        IN /\ Len(stft) = 1
           /\ Len(adv) = n
           /\ a * (2 * q * t * n) = b * (5 * p * t * n + 2 * q * r)
           /\ stft[1] = loss_stft.val

C8_Witness ==
    /\ pc = "optim_g_step"
    /\ NumDisc = 2
    /\ loss_mel.val = Rat(1)
    /\ loss_stft.val = Rat(1)
    /\ loss_gen_all.val = <<3, 1>>

Window(t) == <<t.lo, t.len>>
AfterCrop == pc \in {"gen_score", "optim_g_step", "optim_d_zero", "disc_score",
                     "optim_d_step", "scheduler_g", "scheduler_d", "done"}

\* C9: training_step crops iff crop_length is set and T > crop_length; the
\* start index lies in [0, T - crop_length); audio, fake_audio and the mask
\* carry that one window and every tensor scored by a discriminator, in both
\* phases, is that window; without a crop all keep the full length T.
C9_CropDecisionAndWindow ==
    AfterCrop =>
        LET cropped == crop_length # None /\ time > crop_length
            window == IF cropped THEN <<slice_idx, crop_length>> ELSE <<0, time>>
        IN /\ (slice_idx # None) <=> cropped
           /\ cropped => slice_idx \in 0..(time - crop_length - 1)
           /\ Window(audio) = window
           /\ Window(fake_audio) = window
           /\ Window(audio_mask) = window
           /\ \A k \in 1..Len(scored) : Window(scored[k].x) = window

C9_Witness ==
    /\ pc = "done"
    /\ slice_idx = time - crop_length - 1
    /\ slice_idx = 2
    /\ Len(scored) = 3 * NumDisc
    /\ \A k \in 1..Len(scored) : Window(scored[k].x) = <<2, crop_length>>

\* C10: every optimizer.step consumes exactly the gradient of its own loss of
\* the current call: optim_g.step reads a generator buffer holding only this
\* call's generator loss, optim_d.step reads discriminator buffers holding
\* only this call's discriminator loss.
C10_FreshGradients ==
    /\ "optim_g.step" \in Events =>
          /\ DOMAIN applied.g = {GenP}
          /\ applied.g[GenP] = {<<"gen", calls>>}
    /\ "optim_d.step" \in Events =>
          /\ DOMAIN applied.d = DiscParams
          /\ \A p \in DiscParams : applied.d[p] = {<<"disc", calls>>}

C10_Witness ==
    /\ pc = "done" /\ calls = 2 /\ optim_steps.d = 2
    /\ applied.g[GenP] = {<<"gen", 2>>}
    /\ \A p \in DiscParams : applied.d[p] = {<<"disc", 2>>}

====
